---------------------------- MODULE Spec2Model ----------------------------
(***************************************************************************)
(* A model of numpy/typing/tests/test_typing.py (the mypy test harness)    *)
(* and of numpy/_typing/_extended_precision.py.                            *)
(*                                                                         *)
(* Python strings are sequences of one-character strings, so that          *)
(* substring search, partition, split and strip are computed as Python     *)
(* computes them.                                                          *)
(***************************************************************************)
EXTENDS Integers, Sequences, FiniteSets, TLC

VARIABLES
    pc,             \* position in the session / in the module body
    platform,       \* "posix" or "nt": which os.path is in use
    environ,        \* NUMPY_TYPING_TEST_CLEAR_CACHE: [set, value]
    cache_isdir,    \* os.path.isdir(CACHE_DIR) when run_mypy starts
    rmtree_called,  \* shutil.rmtree(CACHE_DIR) was called
    invoked,        \* the directories api.run was called on, in order
    last_run,       \* the last api.run: the number of lines it printed, its
                    \* stderr and exit code, and OUTPUT_MYPY before it
    collected,      \* the stdout texts of the invocations run_mypy accepted
    failure,        \* the pytest.fail of run_mypy, or "none"
    OUTPUT_MYPY,    \* dict: file name -> list of checker output lines
    fixture,        \* the fixture file under test: its directory and text
    result,         \* the outcome of the test that ran last
    namespace,      \* the names bound in _extended_precision so far
    executed        \* the number of its statements that have run

vars == << pc, platform, environ, cache_isdir, rmtree_called, invoked,
           last_run, collected, failure, OUTPUT_MYPY, fixture, result,
           namespace, executed >>

\* The state of the module _extended_precision.
module_vars == << namespace, executed >>

\* What run_mypy reads and writes besides OUTPUT_MYPY.
session_vars == << environ, cache_isdir, rmtree_called, invoked, last_run,
                   collected, failure >>

----------------------------------------------------------------------------
(* Bounds of the model.                                                    *)

\* The number of output lines the checker prints in one session.
MaxSessionLines == 3

\* The number of lines of a fixture file.
MaxFileLines == 2

\* The number of output lines the checker prints for one fixture file.
MaxFileOutput == 2

----------------------------------------------------------------------------
(* Python's str operations on sequences of characters.                     *)

EMPTY == << >>

Min(S) == CHOOSE x \in S : \A y \in S : x <= y

\* t occurs in s at the 1-based position i.
OccursAt(s, t, i) ==
    /\ i + Len(t) - 1 <= Len(s)
    /\ \A j \in 1..Len(t) : s[i + j - 1] = t[j]

\* t in s
Contains(s, t) == \E i \in 1..(Len(s) - Len(t) + 1) : OccursAt(s, t, i)

\* str.find, 1-based; 0 when t does not occur.
Find(s, t) ==
    IF Contains(s, t)
    THEN Min({ i \in 1..(Len(s) - Len(t) + 1) : OccursAt(s, t, i) })
    ELSE 0

\* s.startswith(t)
StartsWith(s, t) == OccursAt(s, t, 1)

\* s.replace(c, '') for a one-character c
Remove(s, c) == SelectSeq(s, LAMBDA x : x # c)

\* s.partition(sep): << before, sep, after >>, or << s, '', '' >>.
Partition(s, sep) ==
    LET i == Find(s, sep)
    IN  IF i = 0 THEN << s, EMPTY, EMPTY >>
        ELSE << SubSeq(s, 1, i - 1), sep, SubSeq(s, i + Len(sep), Len(s)) >>

\* s.split(sep): the list of the pieces between the occurrences of sep.
RECURSIVE Split(_, _)
Split(s, sep) ==
    LET i == Find(s, sep)
    IN  IF i = 0 THEN << s >>
        ELSE << SubSeq(s, 1, i - 1) >>
                \o Split(SubSeq(s, i + Len(sep), Len(s)), sep)

\* s.split(sep, 1): at most two pieces.
Split1(s, sep) ==
    LET i == Find(s, sep)
    IN  IF i = 0 THEN << s >>
        ELSE << SubSeq(s, 1, i - 1), SubSeq(s, i + Len(sep), Len(s)) >>

\* sep.join(list)
RECURSIVE Join(_, _)
Join(list, sep) ==
    IF list = << >> THEN EMPTY
    ELSE IF Len(list) = 1 THEN list[1]
    ELSE list[1] \o sep \o Join(Tail(list), sep)

WHITESPACE == { " ", "\n", "\t", "\r" }

\* s.strip()
Strip(s) ==
    LET n     == Len(s)
        lead  == { i \in 1..n : s[i] \notin WHITESPACE }
        trail == { i \in 1..n : s[n + 1 - i] \notin WHITESPACE }
    IN  IF lead = {} THEN EMPTY
        ELSE SubSeq(s, Min(lead), n + 1 - Min(trail))

NL == << "\n" >>
COLON == << ":" >>

----------------------------------------------------------------------------
(* os.path                                                                 *)

\* os.path.splitdrive: posixpath has no drives; ntpath takes "X:" off.
splitdrive(p) ==
    IF platform = "nt" /\ Len(p) >= 2 /\ p[2] = ":"
    THEN << SubSeq(p, 1, 2), SubSeq(p, 3, Len(p)) >>
    ELSE << EMPTY, p >>

\* _key_func: split at the first ":" after the drive.  os.path.join(drive,
\* x) of a drive ("" or "X:") and a name is their concatenation.
_key_func(key) ==
    LET drive == splitdrive(key)[1]
        tail  == splitdrive(key)[2]
    IN  drive \o Split1(tail, COLON)[1]

\* _strip_filename: tail.split(":", 1)[-1]
_strip_filename(msg) ==
    LET tail   == splitdrive(msg)[2]
        pieces == Split1(tail, COLON)
    IN  pieces[Len(pieces)]

----------------------------------------------------------------------------
(* run_mypy                                                                *)

\* for directory in (PASS_DIR, REVEAL_DIR, FAIL_DIR, MISC_DIR)
DIRECTORIES == << "pass", "reveal", "fail", "misc" >>

\* os.environ.get("NUMPY_TYPING_TEST_CLEAR_CACHE", True), then bool():
\* the default True is true, a string is true when it is not empty.
ClearCacheFlag(env) == IF env.set THEN env.value # EMPTY ELSE TRUE

\* A run_mypy that handled exit code 0 only.
ExitCodeStrict(exit_code) == exit_code = 0

\* exit_code not in {0, 1} is fatal.
ExitCodeHandled(exit_code) == exit_code \in {0, 1}

\* itertools.groupby(lines, key=_key_func): the runs of consecutive lines
\* with equal keys, as << key, lines >>.
RECURSIVE groupby(_)
groupby(lines) ==
    IF lines = << >> THEN << >>
    ELSE LET k    == _key_func(lines[1])
             rest == groupby(Tail(lines))
         IN  IF rest # << >> /\ rest[1][1] = k
             THEN << << k, << lines[1] >> \o rest[1][2] >> >> \o Tail(rest)
             ELSE << << k, << lines[1] >> >> >> \o rest

\* d with key k set to v (d[k] = v of a dict)
DictSet(d, k, v) ==
    [ x \in (DOMAIN d) \cup {k} |-> IF x = k THEN v ELSE d[x] ]

RECURSIVE DictUpdate(_, _)

\* An assignment of the last group alone, in place of the update.
DictReplace(d, groups) ==
    IF groups = << >> THEN d
    ELSE IF groups[Len(groups)][1] # EMPTY
         THEN DictSet(<< >>, groups[Len(groups)][1], groups[Len(groups)][2])
         ELSE << >>
\* dict.update((k, list(v)) for k, v in iterator if k): in order, a later
\* group of a key replaces the earlier one.
DictUpdate(d, groups) ==
    IF groups = << >> THEN d
    ELSE IF groups[1][1] # EMPTY
         THEN DictUpdate(DictSet(d, groups[1][1], groups[1][2]), Tail(groups))
         ELSE DictUpdate(d, Tail(groups))

\* The lines run_mypy parses out of one stdout.
ParsedLines(stdout) == Split(Remove(stdout, "*"), NL)

\* The lines the checker may print: for two fixture files p and q (one
\* with a "*"), and a line with a drive letter.
LINE_P == << "/", "p", ":", "1" >>
LINE_Q == << "/", "q", ":", "*", "2" >>
LINE_DRIVE == << "C", ":", "/", "p", ":", "3" >>
CheckerLines == { LINE_P, LINE_Q, LINE_DRIVE }

PATH_P == << "/", "p" >>
PATH_DRIVE_P == << "C", ":", "/", "p" >>
PassPaths == { PATH_P, PATH_DRIVE_P }

\* Sequences of at most n checker lines.
LinesUpTo(n) == UNION { [ 1..k -> CheckerLines ] : k \in 0..n }

\* The stdout text of lines: each line ends with a newline.
RECURSIVE TextOf(_)
TextOf(lines) ==
    IF lines = << >> THEN EMPTY ELSE lines[1] \o NL \o TextOf(Tail(lines))

\* Lines printed in the session so far.
RECURSIVE TotalLines(_)
TotalLines(texts) ==
    IF texts = << >> THEN 0
    ELSE Len(ParsedLines(texts[1])) - 1 + TotalLines(Tail(texts))

EnvValues ==
    { [ set |-> FALSE, value |-> EMPTY ],
      [ set |-> TRUE, value |-> EMPTY ],
      [ set |-> TRUE, value |-> << "0" >> ] }

NoRun == [ printed |-> 0, stderr |-> EMPTY, exit_code |-> 0,
           before |-> << >>, valid |-> FALSE ]
NoResult == [ test |-> "none", path |-> EMPTY, outcome |-> "none" ]
NoFixture == [ dir |-> "none", text |-> EMPTY ]

InitRun ==
    /\ pc = "run_mypy"
    /\ platform \in { "posix", "nt" }
    /\ environ \in EnvValues
    /\ cache_isdir \in BOOLEAN
    /\ rmtree_called = FALSE
    /\ invoked = << >>
    /\ last_run = NoRun
    /\ collected = << >>
    /\ failure = "none"
    /\ OUTPUT_MYPY = << >>
    /\ fixture = NoFixture
    /\ result = NoResult
    /\ namespace = << >>
    /\ executed = 0

\* Lines 85-89: the cache directory is removed when it exists and the flag
\* is true.
ClearCache ==
    /\ pc = "run_mypy"
    /\ rmtree_called' = (cache_isdir /\ ClearCacheFlag(environ))
    /\ pc' = "invoke"
    /\ UNCHANGED << platform, environ, cache_isdir, invoked, last_run,
                    collected, failure, OUTPUT_MYPY, fixture, result,
                    module_vars >>

\* Lines 91-108: one iteration of the loop over the directories.
Invoke ==
    /\ pc = "invoke"
    /\ Len(invoked) < Len(DIRECTORIES)
    /\ \E lines \in LinesUpTo(MaxSessionLines - TotalLines(collected)),
          stderr \in { EMPTY, << "e" >> },
          exit_code \in { 0, 1, 2 } :
         LET stdout == TextOf(lines)
         IN  /\ invoked' = Append(invoked, DIRECTORIES[Len(invoked) + 1])
             /\ last_run' = [ printed |-> Len(lines), stderr |-> stderr,
                              exit_code |-> exit_code,
                              before |-> OUTPUT_MYPY, valid |-> TRUE ]
             /\ IF stderr # EMPTY
                THEN /\ failure' = "Unexpected mypy standard error"
                     /\ pc' = "failed"
                     /\ UNCHANGED << collected, OUTPUT_MYPY >>
                ELSE IF ~ExitCodeHandled(exit_code)
                THEN /\ failure' = "Unexpected mypy exit code"
                     /\ pc' = "failed"
                     /\ UNCHANGED << collected, OUTPUT_MYPY >>
                ELSE /\ failure' = failure
                     /\ collected' = Append(collected, stdout)
                     /\ OUTPUT_MYPY' =
                            DictUpdate(OUTPUT_MYPY, groupby(ParsedLines(stdout)))
                     /\ pc' = IF Len(invoked') = Len(DIRECTORIES)
                              THEN "tests" ELSE "invoke"
    /\ UNCHANGED << platform, environ, cache_isdir, rmtree_called, fixture,
                    result, module_vars >>

\* Lines 123-129: test_success(path).
test_success(path) ==
    IF path \in DOMAIN OUTPUT_MYPY THEN "AssertionError" ELSE "passed"

TestSuccess ==
    /\ pc = "tests"
    /\ \E path \in PassPaths :
         result' = [ test |-> "test_success", path |-> path,
                     outcome |-> test_success(path) ]
    /\ UNCHANGED << pc, platform, session_vars, OUTPUT_MYPY, fixture,
                    module_vars >>

NextRun == ClearCache \/ Invoke \/ TestSuccess

SpecRun == InitRun /\ [][NextRun]_vars

----------------------------------------------------------------------------
(* The checker output of the session, as run_mypy read it.                 *)

\* Every line of every accepted stdout, in output order.
RECURSIVE SessionLines(_)
SessionLines(texts) ==
    IF texts = << >> THEN << >>
    ELSE ParsedLines(texts[1]) \o SessionLines(Tail(texts))

\* The lines of the session attributed to file name p, in output order.
LinesOf(p) == SelectSeq(SessionLines(collected), LAMBDA l : _key_func(l) = p)

\* C4: test_success(path) passes exactly when no line of the checker
\* output collected by run_mypy is attributed to path; otherwise it raises
\* an AssertionError.
C4_TestSuccessIffNoOutput ==
    result.test = "test_success" =>
        /\ result.outcome \in { "passed", "AssertionError" }
        /\ result.outcome = "passed" <=> LinesOf(result.path) = << >>

\* test_success raised for a file whose recorded lines are not all of its
\* lines: the file is still reported.
C4_Witness ==
    /\ result.test = "test_success"
    /\ result.outcome = "AssertionError"
    /\ Len(OUTPUT_MYPY[result.path]) < Len(LinesOf(result.path))

C7_ZeroSkipsCacheClearing ==
    pc # "run_mypy" =>
        /\ (environ.set /\ environ.value = << "0" >>) => ~rmtree_called
        /\ (~environ.set /\ cache_isdir) => rmtree_called

\* C9: after run_mypy completes, OUTPUT_MYPY maps each fixture file path
\* to all the lines the checker printed for it, in output order, and a path
\* is no key exactly when the checker printed no line for it.
C9_OutputHoldsAllLines ==
    pc = "tests" =>
        \A p \in PassPaths :
            /\ p \in DOMAIN OUTPUT_MYPY <=> LinesOf(p) # << >>
            /\ p \in DOMAIN OUTPUT_MYPY => OUTPUT_MYPY[p] = LinesOf(p)

----------------------------------------------------------------------------
(* re.match of the output line patterns, and int()                         *)

DIGITS == { "0", "1", "2", "3", "4", "5", "6", "7", "8", "9" }

DigitValue(c) ==
    CASE c = "0" -> 0 [] c = "1" -> 1 [] c = "2" -> 2 [] c = "3" -> 3
      [] c = "4" -> 4 [] c = "5" -> 5 [] c = "6" -> 6 [] c = "7" -> 7
      [] c = "8" -> 8 [] c = "9" -> 9

\* int(s) of a string of digits
RECURSIVE int(_)
int(s) ==
    IF s = << >> THEN 0
    ELSE 10 * int(SubSeq(s, 1, Len(s) - 1)) + DigitValue(s[Len(s)])

\* The last position of the longest run of characters of C that starts at
\* position i of s (a greedy \d+ or \w+); i - 1 when there is none.
RECURSIVE RunEnd(_, _, _)
RunEnd(s, i, C) ==
    IF i > Len(s) \/ s[i] \notin C THEN i - 1 ELSE RunEnd(s, i + 1, C)

\* The length of the longest prefix of s made of characters of C.
PrefixLen(s, C) == RunEnd(s, 1, C)

KIND_ERROR == << "e", "r", "r", "o", "r" >>
KIND_NOTE == << "n", "o", "t", "e" >>

\* re.match(r"(?P<lineno>\d+): (kinds): .+$", line): whether it matches,
\* and the lineno group.  ".+$" is one character or more, none a newline,
\* up to the end of the line or to a newline that ends it.
re_match(line, kinds) ==
    LET n    == PrefixLen(line, DIGITS)
        rest == SubSeq(line, n + 1, Len(line))
        tail(k) == SubSeq(rest, Len(k) + 5, Len(rest))
        ok(k) ==
            /\ StartsWith(rest, << ":", " " >> \o k \o << ":", " " >>)
            /\ Len(tail(k)) >= 1
            /\ tail(k)[1] # "\n"
            /\ Find(tail(k), NL) \in { 0, Len(tail(k)) }
    IN  IF n >= 1 /\ \E k \in kinds : ok(k)
        THEN [ matched |-> TRUE, lineno |-> SubSeq(line, 1, n) ]
        ELSE [ matched |-> FALSE, lineno |-> EMPTY ]

----------------------------------------------------------------------------
(* test_fail                                                               *)

\* fin.readlines(): the lines of the text, each with its newline.
RECURSIVE readlines(_)
readlines(text) ==
    LET i == Find(text, NL)
    IN  IF text = << >> THEN << >>
        ELSE IF i = 0 THEN << text >>
        ELSE << SubSeq(text, 1, i) >>
                \o readlines(SubSeq(text, i + 1, Len(text)))

\* errors[lineno] of the defaultdict(lambda: "")
ErrorsAt(errors, lineno) ==
    IF lineno \in DOMAIN errors THEN errors[lineno] ELSE EMPTY

RECURSIVE scan_errors(_, _)

\* A first loop that passes over a line that does not match.
scan_errors_lenient(output, errors) ==
    LET error_line == Split1(_strip_filename(output[1]), NL)[1]
        match  == re_match(error_line, { KIND_ERROR, KIND_NOTE })
        lineno == int(match.lineno)
    IN  IF output = << >> THEN [ raised |-> "none", errors |-> errors ]
        ELSE IF ~match.matched THEN scan_errors(Tail(output), errors)
        ELSE scan_errors(Tail(output),
                 DictSet(errors, lineno,
                         ErrorsAt(errors, lineno) \o error_line \o NL))

\* Lines 145-154: the loop over the output lines of the file.  It ends with
\* the errors per line number, or raises at the first line that does not
\* match.
scan_errors(output, errors) ==
    LET error_line == Split1(_strip_filename(output[1]), NL)[1]
        match  == re_match(error_line, { KIND_ERROR, KIND_NOTE })
        lineno == int(match.lineno)
    IN  IF output = << >> THEN [ raised |-> "none", errors |-> errors ]
        ELSE IF ~match.matched
        THEN [ raised |-> "ValueError", errors |-> errors ]
        ELSE scan_errors(Tail(output),
                 DictSet(errors, lineno,
                         ErrorsAt(errors, lineno) \o error_line \o NL))

\* "  # E: ", the separator of an expression and its marker.
MARKER_SEP == << " ", " ", "#", " ", "E", ":", " " >>

\* A second loop that passes over every line without " E:".
skip_line_unmarked(line, in_errors) ==
    StartsWith(line, << "#" >>) \/ ~Contains(line, << " ", "E", ":" >>)

\* Lines 158-162: the lines the second loop passes over.
skip_line(line, in_errors) ==
    \/ StartsWith(line, << "#" >>)
    \/ (~Contains(line, << " ", "E", ":" >>) /\ ~in_errors)

\* A _test_fail with the containment the other way round.
_test_fail_swapped(error, expected_error) == ~Contains(error, expected_error)

\* _test_fail(path, expression, error, expected_error, lineno): whether it
\* raises.  expected_error is a str (the result of str.strip), never None,
\* so the first branch is never taken.
_test_fail(error, expected_error) == ~Contains(expected_error, error)

\* Lines 156-173: the loop over the lines of the fixture, from line i on.
RECURSIVE check_lines(_, _, _)
check_lines(lines, i, errors) ==
    LET line == lines[i]
        marker == Strip(Partition(line, MARKER_SEP)[3])
        expected_error == Strip(ErrorsAt(errors, i))
    IN  IF i > Len(lines) THEN "passed"
        ELSE IF skip_line(line, i \in DOMAIN errors)
        THEN check_lines(lines, i + 1, errors)
        ELSE IF Contains(line, << "#", " ", "E", ":" >>)
        THEN IF _test_fail(marker, expected_error)
             THEN "AssertionError"
             ELSE check_lines(lines, i + 1, errors)
        ELSE "Failed"

\* test_fail(path) on a fixture with the given text.
test_fail(path, text) ==
    LET scan == scan_errors(OUTPUT_MYPY[path], << >>)
    IN  IF path \notin DOMAIN OUTPUT_MYPY THEN "AssertionError"
        ELSE IF scan.raised # "none" THEN scan.raised
        ELSE check_lines(readlines(text), 1, scan.errors)

----------------------------------------------------------------------------
(* _parse_reveals                                                          *)

\* The entries of _construct_format_dict that are written out in the
\* source.  "_NBitInt", "c_intp" and the ctypes names are computed from the
\* platform at import time and are no keys here.
FORMAT_DICT ==
    (<< "u", "i", "n", "t", "8" >> :>
        << "n", "u", "m", "p", "y", ".", "u", "i", "n", "t", "8" >>)
    @@ (<< "U", "I", "n", "t", "8" >> :>
        << "n", "u", "m", "p", "y", ".", "u", "n", "s", "i", "g", "n", "e",
                "d", "i", "n", "t", "e", "g", "e", "r", "[", "n", "u", "m",
                "p", "y", ".", "_", "t", "y", "p", "i", "n", "g", ".", "8",
                "B", "i", "t", "]" >>)
    @@ (<< "u", "i", "n", "t", "1", "6" >> :>
        << "n", "u", "m", "p", "y", ".", "u", "i", "n", "t", "1", "6" >>)
    @@ (<< "U", "I", "n", "t", "1", "6" >> :>
        << "n", "u", "m", "p", "y", ".", "u", "n", "s", "i", "g", "n", "e",
                "d", "i", "n", "t", "e", "g", "e", "r", "[", "n", "u", "m",
                "p", "y", ".", "_", "t", "y", "p", "i", "n", "g", ".", "_",
                "1", "6", "B", "i", "t", "]" >>)
    @@ (<< "u", "i", "n", "t", "3", "2" >> :>
        << "n", "u", "m", "p", "y", ".", "u", "i", "n", "t", "3", "2" >>)
    @@ (<< "U", "I", "n", "t", "3", "2" >> :>
        << "n", "u", "m", "p", "y", ".", "u", "n", "s", "i", "g", "n", "e",
                "d", "i", "n", "t", "e", "g", "e", "r", "[", "n", "u", "m",
                "p", "y", ".", "_", "t", "y", "p", "i", "n", "g", ".", "_",
                "3", "2", "B", "i", "t", "]" >>)
    @@ (<< "u", "i", "n", "t", "6", "4" >> :>
        << "n", "u", "m", "p", "y", ".", "u", "i", "n", "t", "6", "4" >>)
    @@ (<< "U", "I", "n", "t", "6", "4" >> :>
        << "n", "u", "m", "p", "y", ".", "u", "n", "s", "i", "g", "n", "e",
                "d", "i", "n", "t", "e", "g", "e", "r", "[", "n", "u", "m",
                "p", "y", ".", "_", "t", "y", "p", "i", "n", "g", ".", "_",
                "6", "4", "B", "i", "t", "]" >>)
    @@ (<< "u", "i", "n", "t", "1", "2", "8" >> :>
        << "n", "u", "m", "p", "y", ".", "u", "i", "n", "t", "1", "2", "8" >>)
    @@ (<< "U", "I", "n", "t", "1", "2", "8" >> :>
        << "n", "u", "m", "p", "y", ".", "u", "n", "s", "i", "g", "n", "e",
                "d", "i", "n", "t", "e", "g", "e", "r", "[", "n", "u", "m",
                "p", "y", ".", "_", "t", "y", "p", "i", "n", "g", ".", "_",
                "1", "2", "8", "B", "i", "t", "]" >>)
    @@ (<< "u", "i", "n", "t", "2", "5", "6" >> :>
        << "n", "u", "m", "p", "y", ".", "u", "i", "n", "t", "2", "5", "6" >>)
    @@ (<< "U", "I", "n", "t", "2", "5", "6" >> :>
        << "n", "u", "m", "p", "y", ".", "u", "n", "s", "i", "g", "n", "e",
                "d", "i", "n", "t", "e", "g", "e", "r", "[", "n", "u", "m",
                "p", "y", ".", "_", "t", "y", "p", "i", "n", "g", ".", "_",
                "2", "5", "6", "B", "i", "t", "]" >>)
    @@ (<< "i", "n", "t", "8" >> :>
        << "n", "u", "m", "p", "y", ".", "i", "n", "t", "8" >>)
    @@ (<< "i", "n", "t", "1", "6" >> :>
        << "n", "u", "m", "p", "y", ".", "i", "n", "t", "1", "6" >>)
    @@ (<< "I", "n", "t", "1", "6" >> :>
        << "n", "u", "m", "p", "y", ".", "s", "i", "g", "n", "e", "d", "i",
                "n", "t", "e", "g", "e", "r", "[", "n", "u", "m", "p", "y",
                ".", "_", "t", "y", "p", "i", "n", "g", ".", "_", "1", "6",
                "B", "i", "t", "]" >>)
    @@ (<< "i", "n", "t", "3", "2" >> :>
        << "n", "u", "m", "p", "y", ".", "i", "n", "t", "3", "2" >>)
    @@ (<< "I", "n", "t", "3", "2" >> :>
        << "n", "u", "m", "p", "y", ".", "s", "i", "g", "n", "e", "d", "i",
                "n", "t", "e", "g", "e", "r", "[", "n", "u", "m", "p", "y",
                ".", "_", "t", "y", "p", "i", "n", "g", ".", "_", "3", "2",
                "B", "i", "t", "]" >>)
    @@ (<< "i", "n", "t", "6", "4" >> :>
        << "n", "u", "m", "p", "y", ".", "i", "n", "t", "6", "4" >>)
    @@ (<< "I", "n", "t", "6", "4" >> :>
        << "n", "u", "m", "p", "y", ".", "s", "i", "g", "n", "e", "d", "i",
                "n", "t", "e", "g", "e", "r", "[", "n", "u", "m", "p", "y",
                ".", "_", "t", "y", "p", "i", "n", "g", ".", "_", "6", "4",
                "B", "i", "t", "]" >>)
    @@ (<< "i", "n", "t", "1", "2", "8" >> :>
        << "n", "u", "m", "p", "y", ".", "i", "n", "t", "1", "2", "8" >>)
    @@ (<< "I", "n", "t", "1", "2", "8" >> :>
        << "n", "u", "m", "p", "y", ".", "s", "i", "g", "n", "e", "d", "i",
                "n", "t", "e", "g", "e", "r", "[", "n", "u", "m", "p", "y",
                ".", "_", "t", "y", "p", "i", "n", "g", ".", "_", "1", "2",
                "8", "B", "i", "t", "]" >>)
    @@ (<< "i", "n", "t", "2", "5", "6" >> :>
        << "n", "u", "m", "p", "y", ".", "i", "n", "t", "2", "5", "6" >>)
    @@ (<< "I", "n", "t", "2", "5", "6" >> :>
        << "n", "u", "m", "p", "y", ".", "s", "i", "g", "n", "e", "d", "i",
                "n", "t", "e", "g", "e", "r", "[", "n", "u", "m", "p", "y",
                ".", "_", "t", "y", "p", "i", "n", "g", ".", "_", "2", "5",
                "6", "B", "i", "t", "]" >>)
    @@ (<< "f", "l", "o", "a", "t", "1", "6" >> :>
        << "n", "u", "m", "p", "y", ".", "f", "l", "o", "a", "t", "1", "6" >>)
    @@ (<< "F", "l", "o", "a", "t", "1", "6" >> :>
        << "n", "u", "m", "p", "y", ".", "f", "l", "o", "a", "t", "i", "n",
                "g", "[", "n", "u", "m", "p", "y", ".", "_", "t", "y", "p",
                "i", "n", "g", ".", "_", "1", "6", "B", "i", "t", "]" >>)
    @@ (<< "f", "l", "o", "a", "t", "3", "2" >> :>
        << "n", "u", "m", "p", "y", ".", "f", "l", "o", "a", "t", "3", "2" >>)
    @@ (<< "F", "l", "o", "a", "t", "3", "2" >> :>
        << "n", "u", "m", "p", "y", ".", "f", "l", "o", "a", "t", "i", "n",
                "g", "[", "n", "u", "m", "p", "y", ".", "_", "t", "y", "p",
                "i", "n", "g", ".", "_", "3", "2", "B", "i", "t", "]" >>)
    @@ (<< "f", "l", "o", "a", "t", "6", "4" >> :>
        << "n", "u", "m", "p", "y", ".", "f", "l", "o", "a", "t", "6", "4" >>)
    @@ (<< "F", "l", "o", "a", "t", "6", "4" >> :>
        << "n", "u", "m", "p", "y", ".", "f", "l", "o", "a", "t", "i", "n",
                "g", "[", "n", "u", "m", "p", "y", ".", "_", "t", "y", "p",
                "i", "n", "g", ".", "_", "6", "4", "B", "i", "t", "]" >>)
    @@ (<< "f", "l", "o", "a", "t", "8", "0" >> :>
        << "n", "u", "m", "p", "y", ".", "f", "l", "o", "a", "t", "8", "0" >>)
    @@ (<< "f", "l", "o", "a", "t", "9", "6" >> :>
        << "n", "u", "m", "p", "y", ".", "f", "l", "o", "a", "t", "9", "6" >>)
    @@ (<< "f", "l", "o", "a", "t", "1", "2", "8" >> :>
        << "n", "u", "m", "p", "y", ".", "f", "l", "o", "a", "t", "1", "2",
                "8" >>)
    @@ (<< "F", "l", "o", "a", "t", "1", "2", "8" >> :>
        << "n", "u", "m", "p", "y", ".", "f", "l", "o", "a", "t", "i", "n",
                "g", "[", "n", "u", "m", "p", "y", ".", "_", "t", "y", "p",
                "i", "n", "g", ".", "_", "1", "2", "8", "B", "i", "t", "]" >>)
    @@ (<< "f", "l", "o", "a", "t", "2", "5", "6" >> :>
        << "n", "u", "m", "p", "y", ".", "f", "l", "o", "a", "t", "2", "5",
                "6" >>)
    @@ (<< "c", "o", "m", "p", "l", "e", "x", "6", "4" >> :>
        << "n", "u", "m", "p", "y", ".", "c", "o", "m", "p", "l", "e", "x",
                "6", "4" >>)
    @@ (<< "c", "o", "m", "p", "l", "e", "x", "1", "2", "8" >> :>
        << "n", "u", "m", "p", "y", ".", "c", "o", "m", "p", "l", "e", "x",
                "1", "2", "8" >>)
    @@ (<< "c", "o", "m", "p", "l", "e", "x", "1", "6", "0" >> :>
        << "n", "u", "m", "p", "y", ".", "c", "o", "m", "p", "l", "e", "x",
                "1", "6", "0" >>)
    @@ (<< "c", "o", "m", "p", "l", "e", "x", "1", "9", "2" >> :>
        << "n", "u", "m", "p", "y", ".", "c", "o", "m", "p", "l", "e", "x",
                "1", "9", "2" >>)
    @@ (<< "c", "o", "m", "p", "l", "e", "x", "2", "5", "6" >> :>
        << "n", "u", "m", "p", "y", ".", "c", "o", "m", "p", "l", "e", "x",
                "2", "5", "6" >>)
    @@ (<< "c", "o", "m", "p", "l", "e", "x", "5", "1", "2" >> :>
        << "n", "u", "m", "p", "y", ".", "c", "o", "m", "p", "l", "e", "x",
                "5", "1", "2" >>)
    @@ (<< "u", "b", "y", "t", "e" >> :>
        << "n", "u", "m", "p", "y", ".", "u", "b", "y", "t", "e" >>)
    @@ (<< "u", "s", "h", "o", "r", "t" >> :>
        << "n", "u", "m", "p", "y", ".", "u", "s", "h", "o", "r", "t" >>)
    @@ (<< "u", "i", "n", "t", "c" >> :>
        << "n", "u", "m", "p", "y", ".", "u", "i", "n", "t", "c" >>)
    @@ (<< "u", "i", "n", "t", "p" >> :>
        << "n", "u", "m", "p", "y", ".", "u", "i", "n", "t", "p" >>)
    @@ (<< "u", "i", "n", "t" >> :>
        << "n", "u", "m", "p", "y", ".", "u", "i", "n", "t" >>)
    @@ (<< "u", "l", "o", "n", "g", "l", "o", "n", "g" >> :>
        << "n", "u", "m", "p", "y", ".", "u", "l", "o", "n", "g", "l", "o",
                "n", "g" >>)
    @@ (<< "b", "y", "t", "e" >> :>
        << "n", "u", "m", "p", "y", ".", "b", "y", "t", "e" >>)
    @@ (<< "s", "h", "o", "r", "t" >> :>
        << "n", "u", "m", "p", "y", ".", "s", "h", "o", "r", "t" >>)
    @@ (<< "i", "n", "t", "c" >> :>
        << "n", "u", "m", "p", "y", ".", "i", "n", "t", "c" >>)
    @@ (<< "i", "n", "t", "p" >> :>
        << "n", "u", "m", "p", "y", ".", "i", "n", "t", "p" >>)
    @@ (<< "i", "n", "t", "_" >> :>
        << "n", "u", "m", "p", "y", ".", "i", "n", "t", "_" >>)
    @@ (<< "l", "o", "n", "g", "l", "o", "n", "g" >> :>
        << "n", "u", "m", "p", "y", ".", "l", "o", "n", "g", "l", "o", "n",
                "g" >>)
    @@ (<< "h", "a", "l", "f" >> :>
        << "n", "u", "m", "p", "y", ".", "h", "a", "l", "f" >>)
    @@ (<< "s", "i", "n", "g", "l", "e" >> :>
        << "n", "u", "m", "p", "y", ".", "s", "i", "n", "g", "l", "e" >>)
    @@ (<< "d", "o", "u", "b", "l", "e" >> :>
        << "n", "u", "m", "p", "y", ".", "d", "o", "u", "b", "l", "e" >>)
    @@ (<< "l", "o", "n", "g", "d", "o", "u", "b", "l", "e" >> :>
        << "n", "u", "m", "p", "y", ".", "l", "o", "n", "g", "d", "o", "u",
                "b", "l", "e" >>)
    @@ (<< "c", "s", "i", "n", "g", "l", "e" >> :>
        << "n", "u", "m", "p", "y", ".", "c", "s", "i", "n", "g", "l", "e" >>)
    @@ (<< "c", "d", "o", "u", "b", "l", "e" >> :>
        << "n", "u", "m", "p", "y", ".", "c", "d", "o", "u", "b", "l", "e" >>)
    @@ (<< "c", "l", "o", "n", "g", "d", "o", "u", "b", "l", "e" >> :>
        << "n", "u", "m", "p", "y", ".", "c", "l", "o", "n", "g", "d", "o",
                "u", "b", "l", "e" >>)

\* repr(k) of a str without quotes or backslashes
repr(k) == << "'" >> \o k \o << "'" >>

\* FORMAT_DICT.get(k, f"<UNRECOGNIZED FORMAT KEY {k!r}>")
format_value(k) ==
    IF k \in DOMAIN FORMAT_DICT THEN FORMAT_DICT[k]
    ELSE << "<", "U", "N", "R", "E", "C", "O", "G", "N", "I", "Z", "E",
            "D", " ", "F", "O", "R", "M", "A", "T", " ", "K", "E", "Y",
            " " >> \o repr(k) \o << ">" >>

\* set(re.findall(r"\{(.*?)\}", comments)): from each "{" not inside a
\* match, the text up to the next "}".
RECURSIVE findall_keys(_)
findall_keys(s) ==
    LET i    == Find(s, << "{" >>)
        rest == SubSeq(s, i + 1, Len(s))
        j    == Find(rest, << "}" >>)
    IN  IF i = 0 \/ j = 0 THEN {}
        ELSE { SubSeq(rest, 1, j - 1) }
                 \cup findall_keys(SubSeq(rest, j + 1, Len(rest)))

\* The position in s, from i on and depth braces deep, of the "}" that
\* closes the replacement field; 0 when there is none.
RECURSIVE field_end(_, _, _)
field_end(s, i, depth) ==
    IF i > Len(s) THEN 0
    ELSE IF s[i] = "{" THEN field_end(s, i + 1, depth + 1)
    ELSE IF s[i] = "}"
         THEN IF depth = 1 THEN i ELSE field_end(s, i + 1, depth - 1)
    ELSE field_end(s, i + 1, depth)

\* The value of one replacement field under str.format(**kwargs), or the
\* exception: there are no positional arguments, so an empty or numeric
\* name raises IndexError; the name ends at the first "." or "[", and is
\* looked up in kwargs; an attribute of the str value is an AttributeError.
\* Fields with an index, a conversion ("!") or a format spec (":") are not
\* evaluated by this model.
get_field(field, kwargs) ==
    LET stops == { i \in 1..Len(field) : field[i] \in { ".", "[", "!", ":" } }
        cut   == IF stops = {} THEN Len(field) + 1 ELSE Min(stops)
        name  == SubSeq(field, 1, cut - 1)
        rest  == SubSeq(field, cut, Len(field))
    IN  IF Contains(field, << "{" >>)
        THEN [ raised |-> "ValueError", text |-> EMPTY ]
        ELSE IF \A i \in 1..Len(name) : name[i] \in DIGITS
        THEN [ raised |-> "IndexError", text |-> EMPTY ]
        ELSE IF name \notin DOMAIN kwargs
        THEN [ raised |-> "KeyError", text |-> EMPTY ]
        ELSE IF rest = EMPTY
        THEN [ raised |-> "none", text |-> kwargs[name] ]
        ELSE IF rest[1] = "."
        THEN [ raised |-> "AttributeError", text |-> EMPTY ]
        ELSE [ raised |-> "NotModelled", text |-> EMPTY ]

\* prefix followed by the rest of the formatted text, or the exception the
\* rest raised.
Emit(prefix, formatted) ==
    IF formatted.raised # "none" THEN formatted
    ELSE [ raised |-> "none", text |-> prefix \o formatted.text ]

\* s.format(**kwargs), from position i of s on: "{{" and "}}" are braces,
\* "{field}" is the value of the field, a single "}" or an open "{" is a
\* ValueError.
RECURSIVE format_from(_, _, _)
format_from(s, i, kwargs) ==
    LET close == field_end(s, i + 1, 1)
        value == get_field(SubSeq(s, i + 1, close - 1), kwargs)
    IN  IF i > Len(s) THEN [ raised |-> "none", text |-> EMPTY ]
        ELSE IF s[i] = "{"
        THEN IF i < Len(s) /\ s[i + 1] = "{"
             THEN Emit(<< "{" >>, format_from(s, i + 2, kwargs))
             ELSE IF close = 0
             THEN [ raised |-> "ValueError", text |-> EMPTY ]
             ELSE IF value.raised # "none" THEN value
             ELSE Emit(value.text, format_from(s, close + 1, kwargs))
        ELSE IF s[i] = "}"
        THEN IF i < Len(s) /\ s[i + 1] = "}"
             THEN Emit(<< "}" >>, format_from(s, i + 2, kwargs))
             ELSE [ raised |-> "ValueError", text |-> EMPTY ]
        ELSE Emit(<< s[i] >>, format_from(s, i + 1, kwargs))

format(s, kwargs) == format_from(s, 1, kwargs)

\* Lines 336-341: the keys of the comments, their values, and the comments
\* formatted with them.
substitute(comments) ==
    format(comments, [ k \in findall_keys(comments) |-> format_value(k) ])

\* "/n", which joins the comments of the lines.
COMMENT_SEP == << "/", "n" >>

\* Lines 326-332: the lines of the file partitioned at the separator, and
\* their comments joined.
reveal_parts(text) ==
    LET rows == Split(Remove(text, "*"), NL)
    IN  [ i \in 1..Len(rows) |-> Partition(rows[i], MARKER_SEP) ]

reveal_comments(parts) ==
    Join([ i \in DOMAIN parts |-> parts[i][3] ], COMMENT_SEP)

\* _parse_reveals(file): the expressions and the formatted markers of the
\* lines, or the exception str.format raised.
_parse_reveals(text) ==
    LET parts    == reveal_parts(text)
        fmt_str  == substitute(reveal_comments(parts))
    IN  [ raised |-> fmt_str.raised,
          expression_array |-> [ i \in DOMAIN parts |-> parts[i][1] ],
          reveal_list |-> IF fmt_str.raised = "none"
                          THEN Split(fmt_str.text, COMMENT_SEP) ELSE << >> ]

----------------------------------------------------------------------------
(* test_reveal                                                             *)

WORD_CHARS ==
    DIGITS \cup { "_" } \cup
    { "a", "b", "c", "d", "e", "f", "g", "h", "i", "j", "k", "l", "m",
      "n", "o", "p", "q", "r", "s", "t", "u", "v", "w", "x", "y", "z",
      "A", "B", "C", "D", "E", "F", "G", "H", "I", "J", "K", "L", "M",
      "N", "O", "P", "Q", "R", "S", "T", "U", "V", "W", "X", "Y", "Z" }

\* The match of _STRIP_PATTERN, (\w+\.)+(\w+), at position i of s: the
\* longest word(.word)* there, when it has two words or more.  The result
\* is where the match ends and where its last word (the second group)
\* starts; the end is i - 1 when the pattern does not match at i.
RECURSIVE strip_match(_, _, _)
strip_match(s, i, first) ==
    LET w == RunEnd(s, i, WORD_CHARS)
    IN  IF w + 2 <= Len(s) /\ w >= i /\ s[w + 1] = "."
              /\ s[w + 2] \in WORD_CHARS
        THEN strip_match(s, w + 2, FALSE)
        ELSE IF first THEN [ end |-> i - 1, group2 |-> i ]
        ELSE [ end |-> w, group2 |-> i ]

\* strip_func: the second group of the match.
strip_func(s, match) == SubSeq(s, match.group2, match.end)

\* _STRIP_PATTERN.sub(strip_func, s), from position i of s on.
RECURSIVE sub_strip(_, _)
sub_strip(s, i) ==
    LET match == strip_match(s, i, TRUE)
    IN  IF i > Len(s) THEN << >>
        ELSE IF match.end < i THEN << s[i] >> \o sub_strip(s, i + 1)
        ELSE strip_func(s, match) \o sub_strip(s, match.end + 1)

strip_modules(s) == sub_strip(s, 1)

\* A _test_reveal with the containment the other way round.
_test_reveal_swapped(reveal, expected_reveal) ==
    ~Contains(strip_modules(reveal), strip_modules(expected_reveal))

\* _test_reveal(path, expression, reveal, expected_reveal, lineno):
\* whether it raises.
_test_reveal(reveal, expected_reveal) ==
    ~Contains(strip_modules(expected_reveal), strip_modules(reveal))

REVEALED_TYPE_IS == << "R", "e", "v", "e", "a", "l", "e", "d", " ", "t",
        "y", "p", "e", " ", "i", "s" >>

\* Whether list[index] of Python is an IndexError; an index below 0 counts
\* from the end.
IndexError(list, index) == index >= Len(list) \/ index < 0 - Len(list)

\* list[index] of Python
Item(list, index) ==
    IF index >= 0 THEN list[index + 1] ELSE list[Len(list) + index + 1]

\* Lines 360-373: the loop over the output lines of the file.
RECURSIVE reveal_loop(_, _)
reveal_loop(output, parsed) ==
    LET error_line == _strip_filename(output[1])
        match  == re_match(error_line, { KIND_NOTE })
        lineno == int(match.lineno) - 1
    IN  IF output = << >> THEN "passed"
        ELSE IF ~match.matched THEN "ValueError"
        ELSE IF ~Contains(error_line, REVEALED_TYPE_IS) THEN "AssertionError"
        ELSE IF IndexError(parsed.reveal_list, lineno) THEN "IndexError"
        ELSE IF IndexError(parsed.expression_array, lineno) THEN "IndexError"
        ELSE IF _test_reveal(Item(parsed.reveal_list, lineno), error_line)
        THEN "AssertionError"
        ELSE reveal_loop(Tail(output), parsed)

\* test_reveal(path) on a fixture with the given text.
test_reveal(path, text) ==
    LET parsed == _parse_reveals(text)
    IN  IF parsed.raised # "none" THEN parsed.raised
        ELSE IF path \notin DOMAIN OUTPUT_MYPY THEN "AssertionError"
        ELSE reveal_loop(OUTPUT_MYPY[path], parsed)

\* The lines a reveal fixture is made of: a qualified type, a known format
\* key, an unknown key, an empty key, and doubled braces.
REVEAL_QUALIFIED == << "x", " ", " ", "#", " ", "E", ":", " ", "a", ".",
        "T" >>
REVEAL_KEY == << "x", " ", " ", "#", " ", "E", ":", " ", "{", "i", "n",
        "t", "8", "}" >>
REVEAL_UNKNOWN_KEY == << "x", " ", " ", "#", " ", "E", ":", " ", "{", "z",
        "z", "}" >>
REVEAL_EMPTY_KEY == << "x", " ", " ", "#", " ", "E", ":", " ", "{", "}" >>
REVEAL_DOUBLED == << "x", " ", " ", "#", " ", "E", ":", " ", "{", "{", "i",
        "n", "t", "8", "}", "}" >>
RevealSourceLines ==
    { REVEAL_QUALIFIED, REVEAL_KEY, REVEAL_UNKNOWN_KEY, REVEAL_EMPTY_KEY,
      REVEAL_DOUBLED }

\* The lines the checker printed for it.
REVEAL_OUT_1T == << "/", "f", ":", "1", ":", " ", "n", "o", "t", "e", ":",
        " ", "R", "e", "v", "e", "a", "l", "e", "d", " ", "t", "y", "p",
        "e", " ", "i", "s", " ", "\"", "b", ".", "T", "\"" >>
REVEAL_OUT_1INT8 == << "/", "f", ":", "1", ":", " ", "n", "o", "t", "e",
        ":", " ", "R", "e", "v", "e", "a", "l", "e", "d", " ", "t", "y",
        "p", "e", " ", "i", "s", " ", "\"", "n", "u", "m", "p", "y", ".",
        "i", "n", "t", "8", "\"" >>
REVEAL_OUT_2T == << "/", "f", ":", "2", ":", " ", "n", "o", "t", "e", ":",
        " ", "R", "e", "v", "e", "a", "l", "e", "d", " ", "t", "y", "p",
        "e", " ", "i", "s", " ", "\"", "b", ".", "T", "\"" >>
REVEAL_OUT_1ERROR == << "/", "f", ":", "1", ":", " ", "e", "r", "r", "o",
        "r", ":", " ", "T" >>
RevealOutputLines ==
    { REVEAL_OUT_1T, REVEAL_OUT_1INT8, REVEAL_OUT_2T, REVEAL_OUT_1ERROR }

----------------------------------------------------------------------------
(* The tests of one fixture file                                           *)

\* The fixture file of the tests below.
FIXTURE_PATH == << "/", "f" >>

\* The lines a fail fixture is made of: a marker, no marker, a comment
\* line holding a marker, and a marker after a single space.
FAIL_MARKED == << "x", " ", " ", "#", " ", "E", ":", " ", "m" >>
FAIL_PLAIN == << "x" >>
FAIL_COMMENT_MARKED == << "#", " ", "E", ":", " ", "m" >>
FAIL_LOOSE_MARKED == << "x", " ", "#", " ", "E", ":", " ", "m" >>
FailSourceLines ==
    { FAIL_MARKED, FAIL_PLAIN, FAIL_COMMENT_MARKED, FAIL_LOOSE_MARKED }

\* The lines the checker printed for it.
FAIL_OUT_1M == << "/", "f", ":", "1", ":", " ", "e", "r", "r", "o", "r",
        ":", " ", "m" >>
FAIL_OUT_1N == << "/", "f", ":", "1", ":", " ", "e", "r", "r", "o", "r",
        ":", " ", "n" >>
FAIL_OUT_2M == << "/", "f", ":", "2", ":", " ", "n", "o", "t", "e", ":",
        " ", "m" >>
FAIL_OUT_3N == << "/", "f", ":", "3", ":", " ", "e", "r", "r", "o", "r",
        ":", " ", "n" >>
FAIL_OUT_MALFORMED == << "/", "f", ":", "1", ":", " ", "w", "a", "r", "n",
        "i", "n", "g", ":", " ", "m" >>
FailOutputLines ==
    { FAIL_OUT_1M, FAIL_OUT_1N, FAIL_OUT_2M, FAIL_OUT_3N, FAIL_OUT_MALFORMED }

\* Sequences of at most n elements of S.
SeqUpTo(S, n) == UNION { [ 1..k -> S ] : k \in 0..n }

\* OUTPUT_MYPY with the given lines for the fixture: a file without lines
\* is no key.
OutputFor(lines) ==
    IF lines = << >> THEN << >> ELSE DictSet(<< >>, FIXTURE_PATH, lines)

InitTests ==
    /\ pc = "collected"
    /\ platform \in { "posix", "nt" }
    /\ environ = [ set |-> FALSE, value |-> EMPTY ]
    /\ cache_isdir = FALSE
    /\ rmtree_called = FALSE
    /\ invoked = DIRECTORIES
    /\ last_run = NoRun
    /\ collected = << >>
    /\ failure = "none"
    /\ result = NoResult
    /\ namespace = << >>
    /\ executed = 0
    /\ \/ /\ fixture \in [ dir : { "fail" },
                           text : { TextOf(ls) :
                                    ls \in SeqUpTo(FailSourceLines, MaxFileLines)
                                              \ { << >> } } ]
          /\ OUTPUT_MYPY \in
                { OutputFor(o) : o \in SeqUpTo(FailOutputLines, MaxFileOutput) }
       \/ /\ fixture \in [ dir : { "reveal" },
                           text : { TextOf(ls) :
                                    ls \in SeqUpTo(RevealSourceLines, MaxFileLines)
                                              \ { << >> } } ]
          /\ OUTPUT_MYPY \in
                { OutputFor(o) : o \in SeqUpTo(RevealOutputLines, MaxFileOutput) }

TestFail ==
    /\ pc = "collected"
    /\ fixture.dir = "fail"
    /\ result' = [ test |-> "test_fail", path |-> FIXTURE_PATH,
                   outcome |-> test_fail(FIXTURE_PATH, fixture.text) ]
    /\ pc' = "reported"
    /\ UNCHANGED << platform, session_vars, OUTPUT_MYPY, fixture,
                    module_vars >>

TestReveal ==
    /\ pc = "collected"
    /\ fixture.dir = "reveal"
    /\ result' = [ test |-> "test_reveal", path |-> FIXTURE_PATH,
                   outcome |-> test_reveal(FIXTURE_PATH, fixture.text) ]
    /\ pc' = "reported"
    /\ UNCHANGED << platform, session_vars, OUTPUT_MYPY, fixture,
                    module_vars >>

NextTests == TestFail \/ TestReveal

SpecTests == InitTests /\ [][NextTests]_vars

\* The lines of the fixture, without their newlines.
SourceLine(i) == Split(fixture.text, NL)[i]
NumSourceLines == Len(readlines(fixture.text))

\* The output lines of the fixture, without the file name.
Diagnostics ==
    IF FIXTURE_PATH \in DOMAIN OUTPUT_MYPY
    THEN [ k \in DOMAIN OUTPUT_MYPY[FIXTURE_PATH] |->
             _strip_filename(OUTPUT_MYPY[FIXTURE_PATH][k]) ]
    ELSE << >>

\* The line number a diagnostic starts with (0 when it starts with none).
DiagnosticLine(d) == int(SubSeq(d, 1, PrefixLen(d, DIGITS)))

\* The diagnostic is "<digits>: <kind>: <message>" for a kind of kinds and a
\* message that is not empty.
WellFormed(d, kinds) ==
    \E n \in 1..Len(d), k \in kinds :
        /\ \A i \in 1..n : d[i] \in DIGITS
        /\ SubSeq(d, n + 1, n + 4 + Len(k)) = << ":",
                " " >> \o k \o << ":", " " >>
        /\ Len(d) > n + 4 + Len(k)
        /\ \A i \in (n + 5 + Len(k))..Len(d) : d[i] # "\n"

\* Some diagnostic on line i contains msg.
DiagnosedWith(i, msg) ==
    \E k \in DOMAIN Diagnostics :
        DiagnosticLine(Diagnostics[k]) = i /\ Contains(Diagnostics[k], msg)

\* The text after the first "# E:" of a line, stripped.
MarkerText(line) == Strip(Partition(line, << "#", " ", "E", ":" >>)[3])

\* C1 as claimed: when test_fail passes, every source line that contains a
\* "# E: <msg>" marker has a diagnostic on its line number whose text
\* contains <msg>.
C1_EveryMarkerDiagnosed ==
    (result.test = "test_fail" /\ result.outcome = "passed") =>
        \A i \in 1..NumSourceLines :
            Contains(SourceLine(i), << "#", " ", "E", ":" >>) =>
                DiagnosedWith(i, MarkerText(SourceLine(i)))

\* C1: when test_fail passes, every source line that does not begin with
\* "#" and holds the separator "  # E: " followed by a message that is not
\* blank has a diagnostic on its line number whose text contains the
\* message.
C1_MarkerAfterSeparatorDiagnosed ==
    (result.test = "test_fail" /\ result.outcome = "passed") =>
        \A i \in 1..NumSourceLines :
            LET line == SourceLine(i)
                msg  == Strip(Partition(line, MARKER_SEP)[3])
            IN  (~StartsWith(line, << "#" >>) /\ msg # EMPTY) =>
                    DiagnosedWith(i, msg)

\* test_fail passed on a fixture with two markers, each diagnosed.
C1_Witness ==
    /\ result.test = "test_fail"
    /\ result.outcome = "passed"
    /\ NumSourceLines = 2
    /\ \A i \in 1..2 : SourceLine(i) = FAIL_MARKED

\* C2 as claimed: when test_fail passes, every diagnostic is on a line
\* number whose source line holds a "# E:" marker.
C2_NoDiagnosticOffMarkers ==
    (result.test = "test_fail" /\ result.outcome = "passed") =>
        \A k \in DOMAIN Diagnostics :
            LET n == DiagnosticLine(Diagnostics[k])
            IN  n \in 1..NumSourceLines /\ Contains(SourceLine(n), << "#",
                    " ", "E", ":" >>)

\* C2: when test_fail passes, every diagnostic whose line number is a line
\* of the file that does not begin with "#" is on a line that holds a
\* "# E:" marker.
C2_NoDiagnosticOffMarkersInFile ==
    (result.test = "test_fail" /\ result.outcome = "passed") =>
        \A k \in DOMAIN Diagnostics :
            LET n == DiagnosticLine(Diagnostics[k])
            IN  (n \in 1..NumSourceLines
                    /\ ~StartsWith(SourceLine(n), << "#" >>)) =>
                Contains(SourceLine(n), << "#", " ", "E", ":" >>)

\* test_fail failed with "Unexpected mypy output" on a fixture whose first
\* line is marked and diagnosed and whose second line is not marked.
C2_Witness ==
    /\ result.test = "test_fail"
    /\ result.outcome = "Failed"
    /\ NumSourceLines = 2
    /\ SourceLine(1) = FAIL_MARKED
    /\ SourceLine(2) = FAIL_PLAIN
    /\ DiagnosedWith(1, << "m" >>)
    /\ \E k \in DOMAIN Diagnostics : DiagnosticLine(Diagnostics[k]) = 2

\* The marker test_reveal expects on line n of the fixture.
ExpectedReveal(n) == Item(_parse_reveals(fixture.text).reveal_list, n - 1)

C5_SubstitutionTotalIdempotent ==
    result.test = "test_reveal" =>
        LET comments == reveal_comments(reveal_parts(fixture.text))
            once     == substitute(comments)
        IN  /\ once.raised = "none"
            /\ \A k \in findall_keys(comments) :
                   Contains(once.text, format_value(k))
            /\ substitute(once.text) = once

\* C8: an output line of the fixture that is not
\* "<digits>: error|note: <message>" makes test_fail raise ValueError,
\* whatever the markers are; one that is not "<digits>: note: <message>"
\* makes test_reveal raise.
C8_MalformedLineIsError ==
    /\ (result.test = "test_fail"
            /\ \E k \in DOMAIN Diagnostics :
                   ~WellFormed(Diagnostics[k], { KIND_ERROR, KIND_NOTE })) =>
           result.outcome = "ValueError"
    /\ (result.test = "test_reveal"
            /\ \E k \in DOMAIN Diagnostics :
                   ~WellFormed(Diagnostics[k], { KIND_NOTE })) =>
           result.outcome \in { "ValueError", "AssertionError", "IndexError",
                                "KeyError", "AttributeError" }

\* test_fail raised ValueError on a malformed second output line, although
\* the marker of line 1 does not match the diagnostic of line 1.
C8_Witness ==
    /\ result.test = "test_fail"
    /\ result.outcome = "ValueError"
    /\ fixture.text = TextOf(<< FAIL_MARKED >>)
    /\ OUTPUT_MYPY[FIXTURE_PATH] = << FAIL_OUT_1N, FAIL_OUT_MALFORMED >>

----------------------------------------------------------------------------
(* numpy/_typing/_extended_precision.py                                    *)

\* The precisions imported from the package, by their width in bits.
_80Bit == 80
_96Bit == 96
_128Bit == 128
_256Bit == 256

\* The expressions of the module: np.origin[args], and a name.
Subscript(origin, args) ==
    [ expr |-> "subscript", origin |-> origin, args |-> args, id |-> EMPTY ]
Name(id) ==
    [ expr |-> "name", origin |-> "", args |-> << >>, id |-> id ]

\* Its statements: target = value, and class target(base): ...
Assign(target, value) ==
    [ stmt |-> "assign", target |-> target, value |-> value ]
Class(target, base) ==
    [ stmt |-> "class", target |-> target, value |-> base ]

\* Lines 16-56: the body of the module, in order.
STATEMENTS ==
    << Assign(<< "U", "i", "n", "t", "1", "2", "8" >>,
           Subscript("unsignedinteger", << _128Bit >>)),
       Class(<< "u", "i", "n", "t", "1", "2", "8" >>,
          Subscript("unsignedinteger", << _128Bit >>)),
       Assign(<< "U", "i", "n", "t", "2", "5", "6" >>,
           Subscript("unsignedinteger", << _256Bit >>)),
       Class(<< "u", "i", "n", "t", "2", "5", "6" >>,
          Name(<< "u", "i", "n", "t", "1", "2", "8" >>)),
       Assign(<< "I", "n", "t", "1", "2", "8" >>,
           Subscript("signedinteger", << _128Bit >>)),
       Class(<< "i", "n", "t", "1", "2", "8" >>,
          Subscript("signedinteger", << _128Bit >>)),
       Assign(<< "I", "n", "t", "2", "5", "6" >>,
           Subscript("signedinteger", << _256Bit >>)),
       Class(<< "i", "n", "t", "2", "5", "6" >>,
          Name(<< "i", "n", "t", "1", "2", "8" >>)),
       Assign(<< "F", "l", "o", "a", "t", "8", "0" >>,
           Subscript("floating", << _80Bit >>)),
       Class(<< "f", "l", "o", "a", "t", "8", "0" >>,
          Subscript("floating", << _80Bit >>)),
       Assign(<< "F", "l", "o", "a", "t", "9", "6" >>,
           Subscript("floating", << _96Bit >>)),
       Class(<< "f", "l", "o", "a", "t", "9", "6" >>,
          Subscript("floating", << _96Bit >>)),
       Assign(<< "F", "l", "o", "a", "t", "1", "2", "8" >>,
           Subscript("floating", << _128Bit >>)),
       Class(<< "f", "l", "o", "a", "t", "1", "2", "8" >>,
          Subscript("floating", << _128Bit >>)),
       Assign(<< "F", "l", "o", "a", "t", "2", "5", "6" >>,
           Subscript("floating", << _256Bit >>)),
       Class(<< "f", "l", "o", "a", "t", "2", "5", "6" >>,
          Subscript("floating", << _256Bit >>)),
       Assign(<< "C", "o", "m", "p", "l", "e", "x", "1", "6", "0" >>,
           Subscript("complexfloating", << _80Bit, _80Bit >>)),
       Class(<< "c", "o", "m", "p", "l", "e", "x", "1", "6", "0" >>,
          Subscript("complexfloating", << _80Bit, _80Bit >>)),
       Assign(<< "C", "o", "m", "p", "l", "e", "x", "1", "9", "2" >>,
           Subscript("complexfloating", << _96Bit, _96Bit >>)),
       Class(<< "c", "o", "m", "p", "l", "e", "x", "1", "9", "2" >>,
          Subscript("complexfloating", << _96Bit, _96Bit >>)),
       Assign(<< "C", "o", "m", "p", "l", "e", "x", "2", "5", "6" >>,
           Subscript("complexfloating", << _128Bit, _128Bit >>)),
       Class(<< "c", "o", "m", "p", "l", "e", "x", "2", "5", "6" >>,
          Subscript("complexfloating", << _128Bit, _128Bit >>)),
       Assign(<< "C", "o", "m", "p", "l", "e", "x", "5", "1", "2" >>,
           Subscript("complexfloating", << _256Bit, _256Bit >>)),
       Class(<< "c", "o", "m", "p", "l", "e", "x", "5", "1", "2" >>,
          Subscript("complexfloating", << _256Bit, _256Bit >>)) >>

\* The objects the statements make: a parametrized generic, and a class
\* with its bases and its body.
GenericAlias(origin, args) ==
    [ kind |-> "generic", origin |-> origin, args |-> args, name |-> EMPTY,
      bases |-> << >>, body |-> "" ]
ClassObject(name, bases) ==
    [ kind |-> "class", origin |-> "", args |-> << >>, name |-> name,
      bases |-> bases, body |-> "..." ]

\* The value of an expression in the namespace ns.
Eval(e, ns) ==
    IF e.expr = "name" THEN ns[e.id] ELSE GenericAlias(e.origin, e.args)

\* issubclass(cls, other) for two classes: cls is other or one of the
\* classes among its bases is a subclass of other.
RECURSIVE issubclass(_, _)
issubclass(cls, other) ==
    \/ cls = other
    \/ \E i \in DOMAIN cls.bases :
           cls.bases[i].kind = "class" /\ issubclass(cls.bases[i], other)

\* The classes the module has defined so far.
DefinedClasses == { n \in DOMAIN namespace : namespace[n].kind = "class" }

InitModule ==
    /\ pc = "module"
    /\ platform = "posix"
    /\ environ = [ set |-> FALSE, value |-> EMPTY ]
    /\ cache_isdir = FALSE
    /\ rmtree_called = FALSE
    /\ invoked = << >>
    /\ last_run = NoRun
    /\ collected = << >>
    /\ failure = "none"
    /\ OUTPUT_MYPY = << >>
    /\ fixture = NoFixture
    /\ result = NoResult
    /\ namespace = << >>
    /\ executed = 0

\* The next statement is an assignment: the name is bound to the value.
ExecAssign ==
    /\ pc = "module"
    /\ executed < Len(STATEMENTS)
    /\ STATEMENTS[executed + 1].stmt = "assign"
    /\ namespace' = DictSet(namespace, STATEMENTS[executed + 1].target,
                            Eval(STATEMENTS[executed + 1].value, namespace))
    /\ executed' = executed + 1
    /\ pc' = IF executed' = Len(STATEMENTS) THEN "imported" ELSE "module"
    /\ UNCHANGED << platform, session_vars, OUTPUT_MYPY, fixture, result >>

\* The next statement is a class statement: the name is bound to a new
\* class with the value of the base expression as its only base.
ExecClass ==
    /\ pc = "module"
    /\ executed < Len(STATEMENTS)
    /\ STATEMENTS[executed + 1].stmt = "class"
    /\ namespace' =
           DictSet(namespace, STATEMENTS[executed + 1].target,
                   ClassObject(STATEMENTS[executed + 1].target,
                       << Eval(STATEMENTS[executed + 1].value, namespace) >>))
    /\ executed' = executed + 1
    /\ pc' = IF executed' = Len(STATEMENTS) THEN "imported" ELSE "module"
    /\ UNCHANGED << platform, session_vars, OUTPUT_MYPY, fixture, result >>

\* An importer of the module asks whether one of its classes derives from
\* another.
IsSubclass ==
    /\ pc = "imported"
    /\ \E c \in DefinedClasses, d \in DefinedClasses :
           result' = [ test |-> "issubclass", path |-> << c, d >>,
                       outcome |-> issubclass(namespace[c], namespace[d]) ]
    /\ UNCHANGED << pc, platform, session_vars, OUTPUT_MYPY, fixture,
                    module_vars >>

NextModule == ExecAssign \/ ExecClass \/ IsSubclass

SpecModule == InitModule /\ [][NextModule]_vars

----------------------------------------------------------------------------
(* The classes of the module                                               *)

\* The capitalised alias of a class name: Uint128 of uint128.
UPPER == ("u" :> "U") @@ ("i" :> "I") @@ ("f" :> "F") @@ ("c" :> "C")
AliasOf(name) == << UPPER[name[1]] >> \o Tail(name)

\* The bit width in a class name: 128 of uint128.
WidthOf(name) == int(SelectSeq(name, LAMBDA c : c \in DIGITS))

\* The precision the parameters of the generic of a class name are to
\* have: the width, and half the width for a complex class.
PrecisionOf(name) ==
    IF name[1] = "c" THEN WidthOf(name) \div 2 ELSE WidthOf(name)

\* C10: every class the module defines is an empty class whose only base
\* is the parametrized generic its capitalised alias names, every
\* parameter of which is the precision of the class name; no class of the
\* module derives from another class of the module.
C10_ClassesSubclassTheirGeneric ==
    \A c \in DefinedClasses :
        /\ namespace[c].body = "..."
        /\ namespace[c].bases = << namespace[AliasOf(c)] >>
        /\ namespace[c].bases[1].kind = "generic"
        /\ \A i \in DOMAIN namespace[c].bases[1].args :
               namespace[c].bases[1].args[i] = PrecisionOf(c)
        /\ \A d \in DefinedClasses \ {c} :
               ~issubclass(namespace[c], namespace[d])

=============================================================================
